---------------------------- MODULE Spec2Model ----------------------------
(***************************************************************************)
(* A state-machine model of the Supabase RAG API (FastAPI application).    *)
(*                                                                         *)
(*   POST /chat         app/api/routes/chat.py    chat                      *)
(*   POST /ingest/file  app/api/routes/ingest.py  ingest_file               *)
(*                                                                         *)
(* The external collaborators (embedding model, Supabase RPC, language     *)
(* model, PDF loader, vector-store writer, file system) are modelled as    *)
(* nondeterministic choices over the outcomes they can produce: a value    *)
(* from a small set, or an exception.                                      *)
(*                                                                         *)
(* Conventions.  A Python Optional is a sequence of length <= 1: <<>> is   *)
(* None and <<v>> is the value v.  A Python str is a sequence of           *)
(* characters (one-character strings), "" being <<>>.  A Python dict is a  *)
(* function from keys to values.  Floats are counted in tenths             *)
(* (temperature 0.4 is 4, match_threshold 1.0 is 10).                      *)
(*                                                                         *)
(* chat.py imports the name SourceDoc where schemas.py defines             *)
(* SourceChunk; the model reads the two as the same type.                  *)
(***************************************************************************)
EXTENDS Integers, Sequences, FiniteSets, TLC

VARIABLES
    \* ---- settings (app/core/config.py) ----
    max_k,          \* settings.max_k, read from the environment at start-up
    \* ---- one POST /chat invocation ----
    pc,             \* position of the chat handler
    req,            \* the validated ChatRequest
    embedOutcome,   \* "none" | "ok" | "raised"   embeddings.embed_query
    payload,        \* Optional: the RPC payload handed to supabase.rpc
    storeOutcome,   \* "none" | "ok" | "raised"   supabase.rpc(...).execute()
    storeData,      \* resp.data of the RPC: Optional list of rows
    retrieved_docs, \* the list returned by similarity_search
    llmCalls,       \* number of client.responses.create calls so far
    llmArgs,        \* Optional: the keyword arguments of that call
    llmOutcome,     \* "none" | "ok" | "raised"
    llmAnswer,      \* resp.output_text of the call
    response,       \* the HTTP response of the invocation
    \* ---- one POST /ingest/file invocation ----
    ipc,            \* position of the ingest handler
    upload,         \* Optional: the request (filename, content, chunk_size, ...)
    safe_name,      \* Optional: os.path.basename(filename)
    tmp_path,       \* Optional: the path save_upload_to_tmp opened for writing
    fs,             \* the file system: the set of [path, content] files
    raw_docs,       \* loader.load()
    chunks,         \* self._split(raw_docs, ...)
    written,        \* Optional: the list handed to vector_store.add_documents
    readOutcome,    \* "none" | "ok" | "raised"   file.read()
    saveOutcome,    \* "none" | "ok" | "raised"   open(tmp_path, "wb") / write
    loadOutcome,    \* "none" | "ok" | "raised"   PyPDFLoader(pdf_path).load()
    splitOutcome,   \* "none" | "ok" | "raised"   CharacterTextSplitter(...)
    writeOutcome,   \* "none" | "ok" | "raised"   vector_store.add_documents
    removeOutcome,  \* "none" | "kept" | "absent" | "removed" | "raised"
    iresponse,      \* Optional: the HTTP response of the invocation
    loaded,         \* Optional: the bytes the loader found at tmp_path
    \* ---- a second invocation of POST /ingest/file ----
    parked,         \* the handler state of the invocation that is not running
    processes       \* the number of server processes that serve the two

chatVars == <<pc, req, embedOutcome, payload, storeOutcome, storeData,
              retrieved_docs, llmCalls, llmArgs, llmOutcome, llmAnswer, response>>

ingestVars == <<ipc, upload, safe_name, tmp_path, fs, raw_docs, chunks, written,
                readOutcome, saveOutcome, loadOutcome, splitOutcome, writeOutcome,
                removeOutcome, iresponse, loaded>>

vars == <<max_k, chatVars, ingestVars, parked, processes>>

-----------------------------------------------------------------------------
(* Python values *)

None == <<>>
Some(v) == <<v>>
IsNone(x) == x = <<>>
Val(x) == x[1]

EmptyDict == <<>>

\* Python's  x or d  for an Optional[int]: None and 0 are falsy.
OrInt(x, d) == IF IsNone(x) \/ Val(x) = 0 THEN d ELSE Val(x)

\* Python's  x or d  for an Optional container (str, list, dict): None and
\* the empty container are falsy.
OrEmpty(x, d) == IF IsNone(x) \/ Val(x) = <<>> THEN d ELSE Val(x)

\* Python's  x if x is not None else d
IfNotNone(x, d) == IF IsNone(x) THEN d ELSE Val(x)

\* {**a, **b}: the keys of both, b's value winning.
DictMerge(a, b) ==
    [key \in (DOMAIN a) \cup (DOMAIN b) |-> IF key \in DOMAIN b THEN b[key] ELSE a[key]]

Min(a, b) == IF a <= b THEN a ELSE b

-----------------------------------------------------------------------------
(* Settings: app/core/config.py *)

openai_model == <<"gpt-5.2">>
max_k_default == 20
default_temperature == 4
default_max_output_tokens == 400
chunk_size_default == 1000
chunk_overlap_default == 200
tmp_dir == <<".", "/", "tmp">>

\* settings.max_k is an environment-overridable positive integer: the default
\* and one smaller deployment value.
MaxKSettings == {2, max_k_default}

(* ChatRequest field constraints: app/models/schemas.py *)
k_field_default == 4
k_ge == 1
k_le == 20
match_threshold_le == 10
max_output_tokens_ge == 50
max_output_tokens_le == 4000
temperature_le == 20

-----------------------------------------------------------------------------
(* Bounds of the model *)

\* Largest number of rows one RPC response carries.
MaxRows == 3
\* Similarity scores are drawn from 1..MaxSim.
MaxSim == 2
\* Longest text of a loaded page, in characters.
MaxTextLen == 4
\* Largest explicit chunk_size of a request (the default apart).
MaxChunk == 3
\* Longest upload filename, in characters (the named examples apart).
MaxNameLen == 3

-----------------------------------------------------------------------------
(* ChatRequest: app/models/schemas.py *)

\* Request bodies as they arrive, before validation.  k may be omitted.
ChatBodies(Ks, Filters, Thresholds, Models, Tokens, Temperatures) ==
    [query : {<<>>, <<"q">>},
     k : Ks,
     filter : Filters,
     match_threshold : Thresholds,
     model : Models,
     max_output_tokens : Tokens,
     temperature : Temperatures]

InRange(x, lo, hi) == IsNone(x) \/ (lo <= Val(x) /\ Val(x) <= hi)

\* The Field(...) constraints; a body that fails them is answered 422 by
\* FastAPI and the handler never runs.
ChatRequestValid(b) ==
    /\ Len(b.query) >= 1
    /\ InRange(b.k, k_ge, k_le)
    /\ InRange(b.match_threshold, 0, match_threshold_le)
    /\ InRange(b.max_output_tokens, max_output_tokens_ge, max_output_tokens_le)
    /\ InRange(b.temperature, 0, temperature_le)

\* The parsed model: an omitted k takes the field default.
ChatRequest(b) == [b EXCEPT !.k = IfNotNone(b.k, k_field_default)]

-----------------------------------------------------------------------------
(* RetrievalService.similarity_search: app/services/retrieval_service.py *)

\* embeddings.embed_query(query), when it returns.
embed_query(query) == <<"vec">> \o query

\* A payload that tests the threshold for truth: 0.0 is dropped like None.
RpcPayloadTruthy(query_embedding, k, filter, match_threshold) ==
    [query_embedding |-> query_embedding,
     match_count |-> k,
     filter |-> OrEmpty(filter, EmptyDict),
     match_threshold |-> IF IsNone(match_threshold) \/ Val(match_threshold) = 0
                         THEN None ELSE match_threshold]

\* The RPC payload; match_threshold is a key of it only when supplied.
RpcPayload(query_embedding, k, filter, match_threshold) ==
    [query_embedding |-> query_embedding,
     match_count |-> k,
     filter |-> OrEmpty(filter, EmptyDict),
     match_threshold |-> match_threshold]

\* resp.data without the default: None stays None.
RowsOfNoDefault(data) == IF IsNone(data) THEN None ELSE Some(Val(data))

\* rows = resp.data or []: the Python value the comprehension iterates, an
\* Optional list (iterating None raises TypeError).
RowsOf(data) == Some(OrEmpty(data, <<>>))

\* One row to one Document.
RowToDocument(r) ==
    [page_content |->
        IF ~IsNone(r.content) /\ Val(r.content) # <<>> THEN Val(r.content)
        ELSE OrEmpty(r.page_content, <<>>),
     metadata |->
        DictMerge(OrEmpty(r.metadata, EmptyDict),
                  [_id |-> r.id, _similarity |-> r.similarity])]

\* One Document per row that has content, the others skipped.
DocumentsOfSkipEmpty(rows) ==
    LET keep == SelectSeq(rows, LAMBDA r : ~IsNone(r.content))
    IN [i \in 1..Len(keep) |-> RowToDocument(keep[i])]

\* One Document per row, in reverse row order.
DocumentsOfReversed(rows) ==
    [i \in 1..Len(rows) |-> RowToDocument(rows[Len(rows) + 1 - i])]

\* The list comprehension over rows: one Document per row, in row order.
DocumentsOf(rows) == [i \in 1..Len(rows) |-> RowToDocument(rows[i])]

\* The request's k handed on as it is.
ClampKNone(k, limit) == k

\* The k handed to similarity_search by the route: min(req.k, settings.max_k).
ClampK(k, limit) == Min(k, limit)

-----------------------------------------------------------------------------
(* ChatService: app/services/chat_service.py *)

Separator == <<"\n\n---\n\n">>

RECURSIVE JoinWith(_, _)
\* sep.join(parts)
JoinWith(sep, parts) ==
    IF parts = <<>> THEN <<>>
    ELSE IF Len(parts) = 1 THEN parts[1]
    ELSE parts[1] \o sep \o JoinWith(sep, Tail(parts))

\* The page_content of every doc, the empty ones included.
AllContents(docs) == [i \in 1..Len(docs) |-> docs[i].page_content]

\* The page_content of the docs whose page_content is truthy, in order.
NonEmptyContents(docs) ==
    LET keep == SelectSeq(docs, LAMBDA d : d.page_content # <<>>)
    IN [i \in 1..Len(keep) |-> keep[i].page_content]

BuildContext(docs) == JoinWith(Separator, NonEmptyContents(docs))

system_content == <<"You are an AI assistant ... If the context is insufficient, say so.">>

user_content(user_query, context) ==
    <<"User question:\n">> \o user_query \o <<"\n\nContext (retrieved):\n">> \o context

build_messages(user_query, docs) ==
    << [role |-> "system", content |-> system_content],
       [role |-> "user", content |-> user_content(user_query, BuildContext(docs))] >>

-----------------------------------------------------------------------------
(* The route: app/api/routes/chat.py *)

Model(r) == OrEmpty(r.model, openai_model)
MaxOutputTokens(r) == OrInt(r.max_output_tokens, default_max_output_tokens)
\* temperature read with  or  where the code tests  is not None.
TemperatureOr(r) == OrInt(r.temperature, default_temperature)

Temperature(r) == IfNotNone(r.temperature, default_temperature)

PreviewLen == 500

\* The whole string, not cut.
PrefixWhole(s, n) == s

Prefix(s, n) == SubSeq(s, 1, Min(n, Len(s)))

SourceDoc(d) ==
    [content_preview |-> Prefix(d.page_content, PreviewLen),
     metadata |-> d.metadata]

Sources(docs) == [i \in 1..Len(docs) |-> SourceDoc(docs[i])]

ChatResponse(answer, sources) ==
    [status |-> 200, answer |-> Some(answer), sources |-> Some(sources)]

\* HTTPException(status_code=...): no answer, no sources.
ErrorResponse(code) == [status |-> code, answer |-> None, sources |-> None]

-----------------------------------------------------------------------------
(* What the collaborators may return *)

\* Rows of the match function: columns id, content, metadata, similarity.
Rows(Contents, Metadatas) ==
    [id : 1..MaxRows, similarity : 1..MaxSim, content : Contents,
     page_content : {None}, metadata : Metadatas]

\* The lists of at most MaxRows rows with pairwise distinct ids, in any order
\* and with any scores: the store is not assumed to honour match_count nor to
\* rank its rows.
RowLists(Contents, Metadatas) ==
    UNION { { rs \in [1..n -> Rows(Contents, Metadatas)] :
                \A i, j \in 1..n : i # j => rs[i].id # rs[j].id } : n \in 0..MaxRows }

\* resp.data: a list of rows, or None.
RpcData(Contents, Metadatas) ==
    {None} \cup { Some(rs) : rs \in RowLists(Contents, Metadatas) }

\* resp.output_text of the language model, when the call returns.
Answers == { <<"answer">> }

-----------------------------------------------------------------------------
(* POST /chat, step by step *)

InitChat ==
    /\ pc = "idle"
    /\ req = None
    /\ embedOutcome = "none"
    /\ payload = None
    /\ storeOutcome = "none"
    /\ storeData = None
    /\ retrieved_docs = <<>>
    /\ llmCalls = 0
    /\ llmArgs = None
    /\ llmOutcome = "none"
    /\ llmAnswer = None
    /\ response = None

\* FastAPI parses and validates the body; an invalid body is answered 422
\* before the handler runs.
Receive(Bodies) ==
    /\ pc = "idle"
    /\ \E b \in Bodies :
        IF ChatRequestValid(b)
        THEN /\ req' = Some(ChatRequest(b))
             /\ pc' = "embed"
             /\ UNCHANGED response
        ELSE /\ response' = Some(ErrorResponse(422))
             /\ pc' = "done"
             /\ UNCHANGED req
    /\ UNCHANGED <<ingestVars, parked, processes, max_k, embedOutcome, payload, storeOutcome, storeData,
                   retrieved_docs, llmCalls, llmArgs, llmOutcome, llmAnswer>>

\* The except clause answering with an empty ChatResponse.
ChatFailedDegraded ==
    /\ pc' = "done"
    /\ response' = Some(ChatResponse(<<>>, <<>>))
    /\ UNCHANGED retrieved_docs

\* except Exception as e: raise HTTPException(status_code=500, ...)
ChatFailed ==
    /\ pc' = "done"
    /\ response' = Some(ErrorResponse(500))
    /\ UNCHANGED retrieved_docs

\* query_embedding = self.embeddings.embed_query(query): returns or raises
\* (as do the client factories called before it).
Embed ==
    /\ pc = "embed"
    /\ \/ /\ embedOutcome' = "ok"
          /\ pc' = "rpc"
          /\ UNCHANGED <<response, retrieved_docs>>
       \/ /\ embedOutcome' = "raised"
          /\ ChatFailed
    /\ UNCHANGED <<ingestVars, parked, processes, max_k, req, payload, storeOutcome, storeData,
                   llmCalls, llmArgs, llmOutcome, llmAnswer>>

\* The payload is built and supabase.rpc(...).execute() is called: it returns
\* resp.data or raises; the rows are mapped to Documents.
StoreQuery(Data) ==
    /\ pc = "rpc"
    /\ payload' = Some(RpcPayload(embed_query(Val(req).query),
                                  ClampK(Val(req).k, max_k),
                                  Val(req).filter,
                                  Val(req).match_threshold))
    /\ \/ \E data \in Data :
            /\ storeOutcome' = "ok"
            /\ storeData' = data
            /\ IF IsNone(RowsOf(data))
               THEN ChatFailed
               ELSE /\ retrieved_docs' = DocumentsOf(Val(RowsOf(data)))
                    /\ pc' = "llm"
                    /\ UNCHANGED response
       \/ /\ storeOutcome' = "raised"
          /\ ChatFailed
          /\ UNCHANGED storeData
    /\ UNCHANGED <<ingestVars, parked, processes, max_k, req, embedOutcome, llmCalls, llmArgs, llmOutcome, llmAnswer>>

\* chat_service.answer(...): the messages are built and
\* client.responses.create is called once; then the sources are assembled and
\* the ChatResponse returned.
CallLLM ==
    /\ pc = "llm"
    /\ llmCalls' = llmCalls + 1
    /\ llmArgs' = Some([model |-> Model(Val(req)),
                        input |-> build_messages(Val(req).query, retrieved_docs),
                        max_output_tokens |-> MaxOutputTokens(Val(req)),
                        temperature |-> Temperature(Val(req))])
    /\ \/ \E a \in Answers :
            /\ llmOutcome' = "ok"
            /\ llmAnswer' = Some(a)
            /\ response' = Some(ChatResponse(a, Sources(retrieved_docs)))
            /\ pc' = "done"
            /\ UNCHANGED retrieved_docs
       \/ /\ llmOutcome' = "raised"
          /\ ChatFailed
          /\ UNCHANGED llmAnswer
    /\ UNCHANGED <<ingestVars, parked, processes, max_k, req, embedOutcome, payload, storeOutcome, storeData>>

-----------------------------------------------------------------------------
(* Text splitting: IngestService._split, app/services/ingest_service.py     *)
(*                                                                          *)
(* _split builds CharacterTextSplitter(chunk_size, chunk_overlap) of        *)
(* langchain_text_splitters with its defaults (separator "\n\n", the        *)
(* separator dropped, whitespace stripped, length counted in characters)    *)
(* and calls split_documents: the text is cut at the separator and the      *)
(* pieces are merged back, greedily, into chunks.                           *)

NL == "\n"
separator == <<NL, NL>>

\* TextSplitter.__init__ raises ValueError on these arguments.
SplitterArgsValid(chunk_size, chunk_overlap) ==
    /\ chunk_size > 0
    /\ chunk_overlap >= 0
    /\ chunk_overlap <= chunk_size

RECURSIVE ReSplit(_)
\* re.split(re.escape(separator), text): the pieces between the leftmost
\* non-overlapping occurrences of the separator, empty pieces included.
ReSplit(text) ==
    LET hits == { i \in 1..(Len(text) - 1) : text[i] = NL /\ text[i + 1] = NL }
    IN IF hits = {} THEN <<text>>
       ELSE LET i == CHOOSE h \in hits : \A g \in hits : h <= g
            IN <<SubSeq(text, 1, i - 1)>> \o ReSplit(SubSeq(text, i + 2, Len(text)))

\* _split_text_with_regex: the non-empty pieces.
SplitTextWithRegex(text) == SelectSeq(ReSplit(text), LAMBDA piece : piece # <<>>)

RECURSIVE LStrip(_)
LStrip(text) ==
    IF text # <<>> /\ Head(text) = NL THEN LStrip(Tail(text)) ELSE text

RECURSIVE RStrip(_)
RStrip(text) ==
    IF text # <<>> /\ text[Len(text)] = NL
    THEN RStrip(SubSeq(text, 1, Len(text) - 1)) ELSE text

\* str.strip(): the newline is the only whitespace character of the model.
Strip(text) == LStrip(RStrip(text))

\* _join_docs: the pieces joined by the separator and stripped; None when
\* nothing is left.
JoinDocs(current_doc) ==
    LET text == Strip(JoinWith(separator, current_doc))
    IN IF text = <<>> THEN None ELSE Some(text)

\* The separator's share of the running total.
SepLen(current_doc, least) == IF Len(current_doc) > least THEN Len(separator) ELSE 0

RECURSIVE PopFront(_, _, _, _, _)
\* The while loop of _merge_splits: pieces are dropped from the front of
\* current_doc until what stays fits the overlap and leaves room for the next
\* piece.
PopFront(current_doc, total, len, chunk_size, chunk_overlap) ==
    IF \/ total > chunk_overlap
       \/ (total + len + SepLen(current_doc, 0) > chunk_size /\ total > 0)
    THEN PopFront(Tail(current_doc),
                  total - (Len(current_doc[1]) + SepLen(current_doc, 1)),
                  len, chunk_size, chunk_overlap)
    ELSE [current_doc |-> current_doc, total |-> total]

RECURSIVE MergeSplits(_, _, _, _, _)
\* _merge_splits, as a fold over the pieces still to place.
MergeSplits(splits, current_doc, total, chunk_size, chunk_overlap) ==
    IF splits = <<>> THEN JoinDocs(current_doc)
    ELSE LET d == Head(splits)
             len == Len(d)
             full == total + len + SepLen(current_doc, 0) > chunk_size
             emitted == IF full /\ Len(current_doc) > 0 THEN JoinDocs(current_doc) ELSE None
             kept == IF full /\ Len(current_doc) > 0
                     THEN PopFront(current_doc, total, len, chunk_size, chunk_overlap)
                     ELSE [current_doc |-> current_doc, total |-> total]
             next_doc == Append(kept.current_doc, d)
         IN emitted \o MergeSplits(Tail(splits), next_doc,
                                   kept.total + len + SepLen(next_doc, 1),
                                   chunk_size, chunk_overlap)

\* CharacterTextSplitter.split_text
split_text(text, chunk_size, chunk_overlap) ==
    MergeSplits(SplitTextWithRegex(text), <<>>, 0, chunk_size, chunk_overlap)

\* Chunks that carry, next to the copied metadata, their position in the
\* Document under a key "index".
ChunksOfDocumentIndexed(doc, chunk_size, chunk_overlap) ==
    LET texts == split_text(doc.page_content, chunk_size, chunk_overlap)
    IN [i \in 1..Len(texts) |->
           [page_content |-> texts[i],
            metadata |-> [key \in (DOMAIN doc.metadata) \cup {"index"} |->
                             IF key = "index" THEN i ELSE doc.metadata[key]]]]

\* The chunks of one Document: each carries a copy of the Document's metadata.
ChunksOfDocument(doc, chunk_size, chunk_overlap) ==
    LET texts == split_text(doc.page_content, chunk_size, chunk_overlap)
    IN [i \in 1..Len(texts) |-> [page_content |-> texts[i], metadata |-> doc.metadata]]

RECURSIVE split_documents(_, _, _)
\* TextSplitter.split_documents: the chunks of every Document, in order.
split_documents(docs, chunk_size, chunk_overlap) ==
    IF docs = <<>> THEN <<>>
    ELSE ChunksOfDocument(Head(docs), chunk_size, chunk_overlap)
         \o split_documents(Tail(docs), chunk_size, chunk_overlap)

-----------------------------------------------------------------------------
(* IngestService.save_upload_to_tmp: app/services/ingest_service.py *)

\* os.path.basename(p): what follows the last "/".
basename(p) ==
    LET slashes == { i \in 1..Len(p) : p[i] = "/" }
        last == IF slashes = {} THEN 0 ELSE CHOOSE i \in slashes : \A j \in slashes : j <= i
    IN SubSeq(p, last + 1, Len(p))

\* os.path.join(a, b)
join(a, b) ==
    IF b # <<>> /\ Head(b) = "/" THEN b
    ELSE IF a = <<>> \/ a[Len(a)] = "/" THEN a \o b
    ELSE a \o <<"/">> \o b

\* The last component of a path names a directory, not a file: nothing, the
\* directory itself or its parent.  open(path, "wb") raises IsADirectoryError.
NamesDirectory(name) == name \in { <<>>, <<".">>, <<".", ".">> }

\* The file system after open(path, "wb") and f.write(content): the file is
\* created or truncated.
WriteFile(files, path, content) ==
    { f \in files : f.path # path } \cup { [path |-> path, content |-> content] }

\* os.path.exists(path)
Exists(files, path) == \E f \in files : f.path = path

\* open(path, "rb").read()
ReadFile(files, path) == (CHOOSE f \in files : f.path = path).content

\* os.remove(path)
RemoveFile(files, path) == { f \in files : f.path # path }

-----------------------------------------------------------------------------
(* IngestService.ingest_pdf_path and the route: app/api/routes/ingest.py *)

\* The number of loaded pages in place of the number of chunks.
ChunksAddedPages(raw, split) == Len(raw)

\* return len(chunks)
ChunksAdded(raw, split) == Len(split)

IngestResponse(chunks_added) == [status |-> 200, chunks_added |-> Some(chunks_added)]

\* HTTPException, or the server's answer to an unhandled exception.
IngestError(code) == [status |-> code, chunks_added |-> None]

\* What the loader may return: one Document per page.
Page(text, number) == [page_content |-> text, metadata |-> [page |-> number]]

InitIngest ==
    /\ ipc = "idle"
    /\ upload = None
    /\ safe_name = None
    /\ tmp_path = None
    /\ fs = {}
    /\ raw_docs = <<>>
    /\ chunks = <<>>
    /\ written = None
    /\ readOutcome = "none"
    /\ saveOutcome = "none"
    /\ loadOutcome = "none"
    /\ splitOutcome = "none"
    /\ writeOutcome = "none"
    /\ removeOutcome = "none"
    /\ iresponse = None
    /\ loaded = None

\* The request arrives: the multipart file and the query parameters
\* (chunk_size and chunk_overlap are plain ints, unconstrained).
IngestReceive(Uploads) ==
    /\ ipc = "idle"
    /\ \E u \in Uploads : upload' = Some(u)
    /\ ipc' = "read"
    /\ UNCHANGED <<safe_name, tmp_path, fs, raw_docs, chunks, written, readOutcome,
                   saveOutcome, loadOutcome, splitOutcome, writeOutcome,
                   removeOutcome, iresponse>>
    /\ UNCHANGED <<max_k, chatVars, parked, processes, loaded>>

\* content = await file.read(); a failure is answered 400.
ReadUpload ==
    /\ ipc = "read"
    /\ \/ /\ readOutcome' = "ok"
          /\ ipc' = "save"
          /\ UNCHANGED iresponse
       \/ /\ readOutcome' = "raised"
          /\ iresponse' = Some(IngestError(400))
          /\ ipc' = "done"
    /\ UNCHANGED <<upload, safe_name, tmp_path, fs, raw_docs, chunks, written,
                   saveOutcome, loadOutcome, splitOutcome, writeOutcome, removeOutcome>>
    /\ UNCHANGED <<max_k, chatVars, parked, processes, loaded>>

\* tmp_path = ingest_service.save_upload_to_tmp(file.filename, content).
\* The call stands before the try: an exception of it is unhandled (500) and
\* the finally block does not run.
SaveUpload ==
    /\ ipc = "save"
    /\ LET name == basename(Val(upload).filename)
           path == join(tmp_dir, name)
       IN /\ safe_name' = Some(name)
          /\ tmp_path' = Some(path)
          /\ \/ /\ ~NamesDirectory(name)
                /\ saveOutcome' = "ok"
                /\ fs' = WriteFile(fs, path, Val(upload).content)
                /\ ipc' = "load"
                /\ UNCHANGED iresponse
             \/ /\ saveOutcome' = "raised"
                /\ iresponse' = Some(IngestError(500))
                /\ ipc' = "done"
                /\ \/ UNCHANGED fs
                   \/ /\ ~NamesDirectory(name)
                      /\ fs' = WriteFile(fs, path, <<>>)
    /\ UNCHANGED <<upload, raw_docs, chunks, written, readOutcome, loadOutcome,
                   splitOutcome, writeOutcome, removeOutcome>>
    /\ UNCHANGED <<max_k, chatVars, parked, processes, loaded>>

\* except Exception as e: raise HTTPException(status_code=500, ...); the
\* finally block runs before the response leaves.
IngestFailed ==
    /\ iresponse' = Some(IngestError(500))
    /\ ipc' = "finally"

\* raw_docs = PyPDFLoader(pdf_path).load(): the loader reads whatever file is
\* at the path now; it raises when there is none or when it cannot parse it.
Load(Docs) ==
    /\ ipc = "load"
    /\ \/ /\ Exists(fs, Val(tmp_path))
          /\ \E docs \in Docs : raw_docs' = docs
          /\ loaded' = Some(ReadFile(fs, Val(tmp_path)))
          /\ loadOutcome' = "ok"
          /\ ipc' = "split"
          /\ UNCHANGED iresponse
       \/ /\ loadOutcome' = "raised"
          /\ IngestFailed
          /\ UNCHANGED <<raw_docs, loaded>>
    /\ UNCHANGED <<upload, safe_name, tmp_path, fs, chunks, written, readOutcome,
                   saveOutcome, splitOutcome, writeOutcome, removeOutcome>>
    /\ UNCHANGED <<max_k, chatVars, parked, processes>>

\* chunks = self._split(raw_docs, chunk_size, chunk_overlap): the splitter's
\* constructor raises on arguments it rejects.
Split ==
    /\ ipc = "split"
    /\ IF SplitterArgsValid(Val(upload).chunk_size, Val(upload).chunk_overlap)
       THEN /\ splitOutcome' = "ok"
            /\ chunks' = split_documents(raw_docs, Val(upload).chunk_size,
                                         Val(upload).chunk_overlap)
            /\ ipc' = "write"
            /\ UNCHANGED iresponse
       ELSE /\ splitOutcome' = "raised"
            /\ IngestFailed
            /\ UNCHANGED chunks
    /\ UNCHANGED <<upload, safe_name, tmp_path, fs, raw_docs, written, readOutcome,
                   saveOutcome, loadOutcome, writeOutcome, removeOutcome>>
    /\ UNCHANGED <<max_k, chatVars, parked, processes, loaded>>

\* self.vector_store.add_documents(chunks); return len(chunks); the route
\* builds the IngestResponse.
AddDocuments ==
    /\ ipc = "write"
    /\ written' = Some(chunks)
    /\ \/ /\ writeOutcome' = "ok"
          /\ iresponse' = Some(IngestResponse(ChunksAdded(raw_docs, chunks)))
          /\ ipc' = "finally"
       \/ /\ writeOutcome' = "raised"
          /\ IngestFailed
    /\ UNCHANGED <<upload, safe_name, tmp_path, fs, raw_docs, chunks, readOutcome,
                   saveOutcome, loadOutcome, splitOutcome, removeOutcome>>
    /\ UNCHANGED <<max_k, chatVars, parked, processes, loaded>>

\* A finally block without the inner try/except: an exception of the removal
\* replaces the response.
FinallyPropagates ==
    /\ ipc = "finally"
    /\ IF Val(upload).keep_file
       THEN removeOutcome' = "kept" /\ UNCHANGED <<fs, iresponse>>
       ELSE IF ~Exists(fs, Val(tmp_path))
       THEN removeOutcome' = "absent" /\ UNCHANGED <<fs, iresponse>>
       ELSE \/ /\ removeOutcome' = "removed"
               /\ fs' = RemoveFile(fs, Val(tmp_path))
               /\ UNCHANGED iresponse
            \/ /\ removeOutcome' = "raised"
               /\ iresponse' = Some(IngestError(500))
               /\ UNCHANGED fs
    /\ ipc' = "done"
    /\ UNCHANGED <<upload, safe_name, tmp_path, raw_docs, chunks, written, readOutcome,
                   saveOutcome, loadOutcome, splitOutcome, writeOutcome>>
    /\ UNCHANGED <<max_k, chatVars, parked, processes, loaded>>

\* finally: the temp file is removed unless keep_file; an exception of the
\* removal is swallowed.
Finally ==
    /\ ipc = "finally"
    /\ IF Val(upload).keep_file
       THEN removeOutcome' = "kept" /\ UNCHANGED fs
       ELSE IF ~Exists(fs, Val(tmp_path))
       THEN removeOutcome' = "absent" /\ UNCHANGED fs
       ELSE \/ removeOutcome' = "removed" /\ fs' = RemoveFile(fs, Val(tmp_path))
            \/ removeOutcome' = "raised" /\ UNCHANGED fs
    /\ ipc' = "done"
    /\ UNCHANGED <<upload, safe_name, tmp_path, raw_docs, chunks, written, readOutcome,
                   saveOutcome, loadOutcome, splitOutcome, writeOutcome, iresponse>>
    /\ UNCHANGED <<max_k, chatVars, parked, processes, loaded>>

-----------------------------------------------------------------------------
(* Two invocations of POST /ingest/file *)

\* What an invocation holds in its own frame; the file system is not part.
Locals ==
    [ipc |-> ipc, upload |-> upload, safe_name |-> safe_name, tmp_path |-> tmp_path,
     raw_docs |-> raw_docs, chunks |-> chunks, written |-> written,
     readOutcome |-> readOutcome, saveOutcome |-> saveOutcome,
     loadOutcome |-> loadOutcome, splitOutcome |-> splitOutcome,
     writeOutcome |-> writeOutcome, removeOutcome |-> removeOutcome,
     iresponse |-> iresponse, loaded |-> loaded]

\* The frame of an invocation whose request has not arrived.
IdleLocals ==
    [ipc |-> "idle", upload |-> None, safe_name |-> None, tmp_path |-> None,
     raw_docs |-> <<>>, chunks |-> <<>>, written |-> None,
     readOutcome |-> "none", saveOutcome |-> "none", loadOutcome |-> "none",
     splitOutcome |-> "none", writeOutcome |-> "none", removeOutcome |-> "none",
     iresponse |-> None, loaded |-> None]

\* One invocation alone.
InitAlone == parked = IdleLocals /\ processes = 1

\* The other invocation runs. Within one process the handler, a coroutine,
\* gives way only at its await (file.read()) or when it has returned; two
\* processes run independently of each other.
Switch ==
    /\ processes = 1 => ipc \in {"idle", "read", "done"}
    /\ parked' = Locals
    /\ ipc' = parked.ipc
    /\ upload' = parked.upload
    /\ safe_name' = parked.safe_name
    /\ tmp_path' = parked.tmp_path
    /\ raw_docs' = parked.raw_docs
    /\ chunks' = parked.chunks
    /\ written' = parked.written
    /\ readOutcome' = parked.readOutcome
    /\ saveOutcome' = parked.saveOutcome
    /\ loadOutcome' = parked.loadOutcome
    /\ splitOutcome' = parked.splitOutcome
    /\ writeOutcome' = parked.writeOutcome
    /\ removeOutcome' = parked.removeOutcome
    /\ iresponse' = parked.iresponse
    /\ loaded' = parked.loaded
    /\ UNCHANGED <<fs, processes, max_k, chatVars>>

-----------------------------------------------------------------------------
(* Specifications of the ingestion pipeline *)

Uploads(Names, Sizes, Overlaps) ==
    [filename : Names, content : {<<"%PDF">>}, chunk_size : Sizes,
     chunk_overlap : Overlaps, keep_file : BOOLEAN]

Alphabet == {"a", "b", NL}

Texts == UNION { [1..n -> Alphabet] : n \in 0..MaxTextLen }

\* Splitting: one page of any text, or two short pages; every chunk_size and
\* chunk_overlap around the valid range, and the defaults.
IngestUploads ==
    Uploads({<<"f">>},
            (0..MaxChunk) \cup {chunk_size_default},
            ((0 - 1)..(MaxChunk + 1)) \cup {chunk_overlap_default})

ShortTexts == { <<>>, <<"a">>, <<"a", NL, NL, "b">> }

IngestDocs ==
    {<<>>} \cup { <<Page(t, 0)>> : t \in Texts }
           \cup { <<Page(t, 0), Page(u, 1)>> : t \in ShortTexts, u \in ShortTexts }

NextIngest ==
    \/ IngestReceive(IngestUploads)
    \/ ReadUpload
    \/ SaveUpload
    \/ Load(IngestDocs)
    \/ Split
    \/ AddDocuments
    \/ Finally

InitIngestSpec == InitChat /\ InitIngest /\ InitAlone /\ max_k = max_k_default

SpecIngest == InitIngestSpec /\ [][NextIngest]_vars

\* Uploading: every filename over "/", "." and a letter, and the traversal
\* example; the chunk parameters left to their defaults.
TraversalName == <<".", ".", "/", ".", ".", "/", "e", "t", "c", "/", "p", "a", "s", "s", "w", "d">>

Filenames ==
    UNION { [1..n -> {"/", ".", "f"}] : n \in 0..MaxNameLen } \cup {TraversalName}

UploadUploads == Uploads(Filenames, {chunk_size_default}, {chunk_overlap_default})

UploadDocs == {<<>>} \cup { <<Page(t, 0)>> : t \in ShortTexts }

NextUpload ==
    \/ IngestReceive(UploadUploads)
    \/ ReadUpload
    \/ SaveUpload
    \/ Load(UploadDocs)
    \/ Split
    \/ AddDocuments
    \/ Finally

SpecUpload == InitIngestSpec /\ [][NextUpload]_vars

-----------------------------------------------------------------------------
(* Specifications of the chat pipeline *)

\* Retrieval: every request k, every store response; the model parameters
\* left to their defaults.
RetrievalBodies ==
    ChatBodies({None, Some(0), Some(1), Some(2), Some(k_le), Some(k_le + 1)},
               {None}, {None}, {None}, {None}, {None})

RetrievalData == RpcData({None, Some(<<"c">>)}, {None})

InitRetrieval == InitChat /\ InitIngest /\ InitAlone /\ max_k \in MaxKSettings

NextRetrieval ==
    \/ Receive(RetrievalBodies)
    \/ Embed
    \/ StoreQuery(RetrievalData)
    \/ CallLLM

SpecRetrieval == InitRetrieval /\ [][NextRetrieval]_vars

\* Parameters: every combination of the request's fields; the store returns
\* nothing or one row.
ParamBodies ==
    ChatBodies({None, Some(0), Some(1), Some(k_le), Some(k_le + 1)},
               {None, Some(EmptyDict), Some([source |-> 1])},
               {None, Some(0), Some(match_threshold_le), Some(match_threshold_le + 1)},
               {None, Some(<<"m">>)},
               {None, Some(max_output_tokens_ge - 1), Some(max_output_tokens_ge),
                Some(max_output_tokens_le), Some(max_output_tokens_le + 1)},
               {None, Some(0), Some(temperature_le), Some(temperature_le + 1)})

ParamData ==
    {None, Some(<<>>),
     Some(<<[id |-> 1, similarity |-> 1, content |-> Some(<<"c">>),
             page_content |-> None, metadata |-> None]>>)}

InitParams == InitChat /\ InitIngest /\ InitAlone /\ max_k \in MaxKSettings

NextParams ==
    \/ Receive(ParamBodies)
    \/ Embed
    \/ StoreQuery(ParamData)
    \/ CallLLM

SpecParams == InitParams /\ [][NextParams]_vars


-----------------------------------------------------------------------------
(* Properties: retrieval *)

\* The rows the store returned, None read as no rows.
StoreRows == OrEmpty(storeData, <<>>)

\* The k similarity_search was called with.
RequestedK == Val(payload).match_count

\* Ranked: similarity descending, equal scores in insertion (id) order.
Ranked(ids, sims) ==
    \A i, j \in 1..Len(ids) :
        i < j => \/ sims[i] > sims[j]
                 \/ (sims[i] = sims[j] /\ ids[i] < ids[j])

RowsRanked ==
    Ranked([i \in 1..Len(StoreRows) |-> StoreRows[i].id],
           [i \in 1..Len(StoreRows) |-> StoreRows[i].similarity])

DocsRanked ==
    Ranked([i \in 1..Len(retrieved_docs) |-> retrieved_docs[i].metadata._id],
           [i \in 1..Len(retrieved_docs) |-> retrieved_docs[i].metadata._similarity])

\* C1 (as stated): whatever rows the store returns, similarity_search
\* returns at most k matches.
C1_AtMostK ==
    storeOutcome = "ok" => Len(retrieved_docs) <= RequestedK

\* C1 (amended): similarity_search returns exactly one match per row the
\* store returned, so its length is the store's row count, and is at most k
\* whenever the store returned at most match_count = k rows.
C1_OneMatchPerRow ==
    storeOutcome = "ok" =>
        /\ Len(retrieved_docs) = Len(StoreRows)
        /\ (Len(StoreRows) <= RequestedK => Len(retrieved_docs) <= RequestedK)

C1_Witness ==
    /\ storeOutcome = "ok"
    /\ RequestedK = 2
    /\ Len(StoreRows) = 2
    /\ Len(retrieved_docs) = 2
    /\ \E i \in 1..2 : IsNone(StoreRows[i].content)

\* C2: the match_count sent to the store is between 1 and settings.max_k,
\* and it is the request's k when that does not exceed settings.max_k.
C2_MatchCountClamped ==
    ~IsNone(payload) =>
        /\ Val(payload).match_count >= 1
        /\ Val(payload).match_count <= max_k
        /\ (Val(req).k <= max_k => Val(payload).match_count = Val(req).k)

C2_Witness ==
    /\ ~IsNone(payload)
    /\ Val(req).k > max_k
    /\ Val(payload).match_count = max_k

\* C3 (as stated): the returned matches are sorted by similarity descending,
\* ties in insertion order, whatever the order of the store's rows.
C3_AlwaysRanked ==
    storeOutcome = "ok" => DocsRanked

\* C3 (amended): the returned matches are in the order of the store's rows
\* (no re-sort), so they are sorted by similarity descending with ties in
\* insertion order exactly when the store returned its rows so ranked.
C3_StoreOrderKept ==
    storeOutcome = "ok" =>
        /\ Len(retrieved_docs) = Len(StoreRows)
        /\ \A i \in 1..Len(retrieved_docs) :
              /\ retrieved_docs[i].metadata._id = StoreRows[i].id
              /\ retrieved_docs[i].metadata._similarity = StoreRows[i].similarity
        /\ (RowsRanked <=> DocsRanked)

C3_Witness ==
    /\ storeOutcome = "ok"
    /\ Len(StoreRows) = 3
    /\ RowsRanked
    /\ StoreRows[1].similarity = StoreRows[2].similarity
    /\ DocsRanked

-----------------------------------------------------------------------------
(* Properties: failures of the chat pipeline *)

\* C6: after the embedding call or the store query raised, the language
\* model is not called and the invocation ends in an error response without
\* answer or sources; after the language model raised, likewise; an answer is
\* returned only when all three calls returned.
C6_FailureAborts ==
    /\ (embedOutcome = "raised" \/ storeOutcome = "raised") =>
          /\ llmCalls = 0
          /\ llmOutcome = "none"
          /\ pc = "done"
          /\ response = Some(ErrorResponse(500))
    /\ llmOutcome = "raised" =>
          /\ pc = "done"
          /\ response = Some(ErrorResponse(500))
    /\ (~IsNone(response) /\ ~IsNone(Val(response).answer)) =>
          /\ embedOutcome = "ok"
          /\ storeOutcome = "ok"
          /\ llmOutcome = "ok"

C6_Witness ==
    /\ embedOutcome = "ok"
    /\ storeOutcome = "raised"
    /\ pc = "done"
    /\ llmCalls = 0

-----------------------------------------------------------------------------
(* Properties: parameters of the language-model call *)

\* C9: the max_output_tokens and temperature of the language-model call
\* are the request's values when it supplied them, and the configured
\* defaults when it did not.
C9_ModelParamsAsSupplied ==
    llmCalls > 0 =>
        /\ Val(llmArgs).max_output_tokens =
              IF IsNone(Val(req).max_output_tokens) THEN default_max_output_tokens
              ELSE Val(Val(req).max_output_tokens)
        /\ Val(llmArgs).temperature =
              IF IsNone(Val(req).temperature) THEN default_temperature
              ELSE Val(Val(req).temperature)

C9_Witness ==
    /\ llmCalls > 0
    /\ Val(req).temperature = Some(0)
    /\ Val(req).max_output_tokens = Some(max_output_tokens_ge)
    /\ Val(llmArgs).temperature = 0
    /\ Val(llmArgs).max_output_tokens = max_output_tokens_ge

-----------------------------------------------------------------------------
(* Properties: empty retrieval *)

\* The context part of the user message of the language-model call.
SentContext ==
    LET content == Val(llmArgs).input[2].content
    IN SubSeq(content, Len(user_content(Val(req).query, <<>>)) + 1, Len(content))

\* C10: when the store returns no rows (an empty list or None), the search
\* returns the empty list without raising and the pipeline goes on: the
\* language model is called once, with an empty context, and its answer is
\* returned with an empty list of sources.
C10_EmptyRetrievalProceeds ==
    (storeOutcome = "ok" /\ StoreRows = <<>>) =>
        /\ retrieved_docs = <<>>
        /\ \/ pc = "llm" /\ llmCalls = 0 /\ IsNone(response)
           \/ /\ pc = "done"
              /\ llmCalls = 1
              /\ SentContext = <<>>
              /\ llmOutcome = "ok" =>
                    response = Some(ChatResponse(Val(llmAnswer), <<>>))

C10_Witness ==
    /\ storeOutcome = "ok"
    /\ IsNone(storeData)
    /\ llmCalls = 1
    /\ SentContext = <<>>
    /\ response = Some(ChatResponse(Val(llmAnswer), <<>>))

-----------------------------------------------------------------------------
(* Properties: ingestion *)

ChunkParamsValid(u) ==
    u.chunk_size > 0 /\ 0 <= u.chunk_overlap /\ u.chunk_overlap < u.chunk_size

\* C4 (as stated): with 0 <= chunk_overlap < chunk_size, every chunk is at
\* most chunk_size characters long and none is empty.
C4_ChunksWithinSize ==
    (splitOutcome = "ok" /\ ChunkParamsValid(Val(upload))) =>
        \A i \in 1..Len(chunks) :
            /\ Len(chunks[i].page_content) >= 1
            /\ Len(chunks[i].page_content) <= Val(upload).chunk_size

\* C5 (as stated): a request with invalid chunk parameters is rejected
\* before any I/O: no temp file is written, the loader is not invoked,
\* nothing is handed to the vector store, and the invocation ends in an error.
C5_InvalidConfigRejectedFirst ==
    (~IsNone(upload) /\ ~ChunkParamsValid(Val(upload))) =>
        /\ saveOutcome = "none"
        /\ fs = {}
        /\ loadOutcome = "none"
        /\ writeOutcome = "none"
        /\ IsNone(written)
        /\ (~IsNone(iresponse) => Val(iresponse).status # 200)

\* C7: a success response reports chunks_added = n only when loading,
\* splitting and the store write all completed, n being the number of chunks
\* handed to the write; when one of them raised, the invocation ends in the
\* ingestion error, which carries no count.
C7_CountOnlyOnFullSuccess ==
    /\ (~IsNone(iresponse) /\ Val(iresponse).status = 200) =>
          /\ loadOutcome = "ok"
          /\ splitOutcome = "ok"
          /\ writeOutcome = "ok"
          /\ ~IsNone(written)
          /\ Val(iresponse).chunks_added = Some(Len(Val(written)))
    /\ (loadOutcome = "raised" \/ splitOutcome = "raised" \/ writeOutcome = "raised") =>
          iresponse = Some(IngestError(500))
    /\ (~IsNone(iresponse) /\ Val(iresponse).status # 200) =>
          IsNone(Val(iresponse).chunks_added)

C7_Witness ==
    /\ ipc = "done"
    /\ ~IsNone(iresponse)
    /\ Val(iresponse).status = 200
    /\ Len(raw_docs) = 1
    /\ Val(iresponse).chunks_added = Some(2)
    /\ Len(Val(written)) = 2

\* A plain file name: not empty, no separator, neither "." nor "..".
PlainName(name) ==
    /\ ~NamesDirectory(name)
    /\ \A i \in 1..Len(name) : name[i] # "/"

\* C8 (as stated): for every upload filename the sanitized name has no
\* directory component and the storage path is a file directly inside the
\* temp directory.
C8_StoredDirectlyInTmpDir ==
    saveOutcome # "none" =>
        /\ PlainName(Val(safe_name))
        /\ Val(tmp_path) = tmp_dir \o <<"/">> \o Val(safe_name)
        /\ \A f \in fs : f.path = Val(tmp_path)

-----------------------------------------------------------------------------
(* Specification of prompt assembly *)

\* Row lists whose i-th row is the i-th stored record (id i, one score); the
\* content and the metadata of each row vary.
RankedRowLists(Contents, Metadatas) ==
    UNION { { [i \in 1..n |-> [id |-> i, similarity |-> 1, content |-> cm[i].content,
                               page_content |-> None, metadata |-> cm[i].metadata]] :
                cm \in [1..n -> [content : Contents, metadata : Metadatas]] } :
            n \in 0..MaxRows }

\* Prompt: rows without text, with an empty text and with two different
\* texts, in every arrangement.
PromptBodies == ChatBodies({None}, {None}, {None}, {None}, {None}, {None})

PromptData ==
    { Some(rs) : rs \in RankedRowLists({None, Some(<<>>), Some(<<"c">>), Some(<<"d">>)},
                                       {None}) }

InitPrompt == InitChat /\ InitIngest /\ InitAlone /\ max_k = max_k_default

NextPrompt ==
    \/ Receive(PromptBodies)
    \/ Embed
    \/ StoreQuery(PromptData)
    \/ CallLLM

SpecPrompt == InitPrompt /\ [][NextPrompt]_vars

-----------------------------------------------------------------------------
(* Properties: prompt assembly *)

RECURSIVE ContextFrom(_, _)
\* The texts of the matches that have one, in order, each but the first
\* preceded by the separator.
ContextFrom(docs, started) ==
    IF docs = <<>> THEN <<>>
    ELSE IF Head(docs).page_content = <<>> THEN ContextFrom(Tail(docs), started)
    ELSE (IF started THEN <<"\n\n---\n\n">> ELSE <<>>)
         \o Head(docs).page_content \o ContextFrom(Tail(docs), TRUE)

\* C11: the language model is sent exactly two messages, the instruction
\* (system) then the user message; the user message is the literal query
\* followed by the context, which is the texts of the non-empty matches in
\* retrieval order joined by the separator, with no leading, trailing or
\* doubled separator.
C11_PromptAssembly ==
    llmCalls > 0 =>
        /\ Len(Val(llmArgs).input) = 2
        /\ Val(llmArgs).input[1].role = "system"
        /\ Val(llmArgs).input[1].content = system_content
        /\ Val(llmArgs).input[2].role = "user"
        /\ Val(llmArgs).input[2].content =
              <<"User question:\n">> \o Val(req).query \o <<"\n\nContext (retrieved):\n">>
              \o ContextFrom(retrieved_docs, FALSE)

C11_Witness ==
    /\ llmCalls > 0
    /\ Len(retrieved_docs) = 3
    /\ retrieved_docs[1].page_content = <<"d">>
    /\ retrieved_docs[2].page_content = <<>>
    /\ retrieved_docs[3].page_content = <<"c">>
    /\ SentContext = <<"d", "\n\n---\n\n", "c">>

-----------------------------------------------------------------------------
(* Specification of row mapping and sources *)

\* A text one character longer than the preview.
LongText == [i \in 1..(PreviewLen + 1) |-> "x"]

\* Rows: content null, empty, short and longer than the preview; metadata
\* null, a stored key, and a stored key named like an annotation.
RowsBodies == ChatBodies({None}, {None}, {None}, {None}, {None}, {None})

RowsData ==
    {None} \cup
    { Some(rs) : rs \in RankedRowLists({None, Some(<<>>), Some(<<"c">>), Some(LongText)},
                                       {None, Some([page |-> 1]), Some([_id |-> 0])}) }

InitRows == InitChat /\ InitIngest /\ InitAlone /\ max_k = max_k_default

NextRows ==
    \/ Receive(RowsBodies)
    \/ Embed
    \/ StoreQuery(RowsData)
    \/ CallLLM

SpecRows == InitRows /\ [][NextRows]_vars

-----------------------------------------------------------------------------
(* Properties: sources and row mapping *)

C16_RowsMappedMetadataKept ==
    storeOutcome = "ok" =>
        /\ Len(retrieved_docs) = Len(StoreRows)
        /\ \A i \in 1..Len(StoreRows) :
              LET row == StoreRows[i]
                  doc == retrieved_docs[i]
                  stored == IF IsNone(row.metadata) THEN EmptyDict ELSE Val(row.metadata)
              IN /\ doc.page_content = IF IsNone(row.content) THEN <<>> ELSE Val(row.content)
                 /\ \A key \in DOMAIN stored : doc.metadata[key] = stored[key]
                 /\ doc.metadata._id = row.id
                 /\ doc.metadata._similarity = row.similarity
                 /\ DOMAIN doc.metadata = (DOMAIN stored) \cup {"_id", "_similarity"}

-----------------------------------------------------------------------------
(* Properties: cleanup *)

\* The response the try block produced: the count on full success, else 500.
ResultOfIngestion ==
    IF loadOutcome = "ok" /\ splitOutcome = "ok" /\ writeOutcome = "ok"
    THEN IngestResponse(Len(chunks))
    ELSE IngestError(500)

\* C13: for an invocation that saved its temp file, no removal is attempted
\* before it finishes; once it has finished, removal was attempted exactly
\* when keep_file is false (the file is absent if the removal succeeded and
\* present when keep_file is true), and a failure of the removal is
\* swallowed: the response is the one the ingestion produced.
C13_CleanupAfterSave ==
    saveOutcome = "ok" =>
        /\ ipc # "done" => removeOutcome = "none" /\ Exists(fs, Val(tmp_path))
        /\ ipc = "done" =>
              /\ Val(upload).keep_file =>
                    removeOutcome = "kept" /\ Exists(fs, Val(tmp_path))
              /\ ~Val(upload).keep_file =>
                    /\ removeOutcome \in {"removed", "raised", "absent"}
                    /\ removeOutcome = "removed" => ~Exists(fs, Val(tmp_path))
              /\ iresponse = Some(ResultOfIngestion)

C13_Witness ==
    /\ ipc = "done"
    /\ saveOutcome = "ok"
    /\ ~Val(upload).keep_file
    /\ removeOutcome = "raised"
    /\ Exists(fs, Val(tmp_path))
    /\ Val(iresponse).status = 200
    /\ Val(Val(iresponse).chunks_added) > 0

-----------------------------------------------------------------------------
(* Properties: the store query *)

\* C15: the store query carries exactly the query's embedding, match_count
\* equal to the k passed to the search, and filter equal to the supplied
\* filter or the empty map; match_threshold is a key of the query exactly
\* when a threshold was supplied, with the supplied value (0.0 is sent as 0.0).
C15_QueryFields ==
    ~IsNone(payload) =>
        /\ DOMAIN Val(payload) = {"query_embedding", "match_count", "filter", "match_threshold"}
        /\ Val(payload).query_embedding = embed_query(Val(req).query)
        /\ Val(payload).match_count = Min(Val(req).k, max_k)
        /\ Val(payload).filter =
              IF IsNone(Val(req).filter) THEN EmptyDict ELSE Val(Val(req).filter)
        /\ IsNone(Val(payload).match_threshold) <=> IsNone(Val(req).match_threshold)
        /\ Val(payload).match_threshold = Val(req).match_threshold

C15_Witness ==
    /\ ~IsNone(payload)
    /\ Val(req).match_threshold = Some(0)
    /\ Val(payload).match_threshold = Some(0)
    /\ Val(req).filter = Some([source |-> 1])
    /\ Val(payload).filter = [source |-> 1]

-----------------------------------------------------------------------------
(* Properties: windows and units *)

RECURSIVE Windows(_, _, _)
\* The windows of the statement: length size, the start advancing by step,
\* the last window taking the remainder.
Windows(text, size, step) ==
    IF text = <<>> THEN <<>>
    ELSE IF Len(text) <= size THEN <<text>>
    ELSE <<SubSeq(text, 1, size)>> \o Windows(SubSeq(text, step + 1, Len(text)), size, step)

RECURSIVE WindowsOfDocuments(_, _, _)
WindowsOfDocuments(docs, size, step) ==
    IF docs = <<>> THEN <<>>
    ELSE Windows(Head(docs).page_content, size, step)
         \o WindowsOfDocuments(Tail(docs), size, step)

ChunkTexts == [i \in 1..Len(chunks) |-> chunks[i].page_content]

\* C17 (as stated): with 0 <= chunk_overlap < chunk_size, the chunks of each
\* unit are the windows of length chunk_size whose start advances by
\* chunk_size - chunk_overlap, so consecutive chunks overlap by
\* min(chunk_overlap, remaining) characters and the chunks with the overlaps
\* removed give back the unit's text.
C17_ChunksAreWindows ==
    (splitOutcome = "ok" /\ ChunkParamsValid(Val(upload))) =>
        ChunkTexts = WindowsOfDocuments(raw_docs, Val(upload).chunk_size,
                                        Val(upload).chunk_size - Val(upload).chunk_overlap)

\* The chunks that name unit u's page, in their order.
UnitChunks(u) ==
    SelectSeq(chunks, LAMBDA c : c.metadata.page = raw_docs[u].metadata.page)

\* The unit a chunk names.
UnitOf(c) == CHOOSE u \in 1..Len(raw_docs) : raw_docs[u].metadata.page = c.metadata.page

\* The characters of a text that are not newlines.
Letters(text) == SelectSeq(text, LAMBDA ch : ch # NL)

\* part occurs in whole as a run of consecutive characters.
OccursIn(part, whole) ==
    \E start \in 0..(Len(whole) - Len(part)) :
        \A j \in 1..Len(part) : whole[start + j] = part[j]

\* C18 (as stated): every chunk carries its unit's metadata plus a sequence
\* index: a key the unit's metadata does not have, whose value is the chunk's
\* position within the unit.
C18_SequenceIndexAdded ==
    splitOutcome = "ok" =>
        \A u \in 1..Len(raw_docs) :
            \A n \in 1..Len(UnitChunks(u)) :
                LET c == UnitChunks(u)[n]
                IN /\ \A key \in DOMAIN raw_docs[u].metadata :
                         c.metadata[key] = raw_docs[u].metadata[key]
                   /\ \E key \in (DOMAIN c.metadata) \ (DOMAIN raw_docs[u].metadata) :
                         c.metadata[key] \in {n - 1, n}

\* C18 (amended): each unit is split independently: every chunk carries
\* exactly the metadata of one unit, with no key added, and its characters
\* come from that unit's text; the chunks are in unit order and, within a
\* unit, are what splitting the unit alone gives, in that order; a unit with
\* empty text contributes no chunks and is not an error.
C18_UnitsSplitIndependently ==
    splitOutcome = "ok" =>
        /\ \A i \in 1..Len(chunks) :
              /\ \E u \in 1..Len(raw_docs) : chunks[i].metadata = raw_docs[u].metadata
              /\ OccursIn(Letters(chunks[i].page_content),
                          Letters(raw_docs[UnitOf(chunks[i])].page_content))
        /\ \A i, j \in 1..Len(chunks) : i < j => UnitOf(chunks[i]) <= UnitOf(chunks[j])
        /\ \A u \in 1..Len(raw_docs) :
              /\ [n \in 1..Len(UnitChunks(u)) |-> UnitChunks(u)[n].page_content]
                    = split_text(raw_docs[u].page_content, Val(upload).chunk_size,
                                 Val(upload).chunk_overlap)
              /\ raw_docs[u].page_content = <<>> => UnitChunks(u) = <<>>

C18_Witness ==
    /\ splitOutcome = "ok"
    /\ Len(raw_docs) = 2
    /\ raw_docs[1].page_content = <<>>
    /\ Len(chunks) = 2
    /\ chunks[1] = [page_content |-> <<"a">>, metadata |-> [page |-> 1]]
    /\ chunks[2] = [page_content |-> <<"b">>, metadata |-> [page |-> 1]]

-----------------------------------------------------------------------------
(* Specification of two concurrent ingestions *)

\* Two clients' uploads: the same or different names, different bytes.
ConcurrentUploads ==
    [filename : {<<"f">>, <<"g">>},
     content : {<<"%PDF", "1">>, <<"%PDF", "2">>},
     chunk_size : {chunk_size_default},
     chunk_overlap : {chunk_overlap_default},
     keep_file : BOOLEAN]

ConcurrentDocs == { <<>>, <<Page(<<"a">>, 0)>> }

\* The server may run as one process or as several.
InitConcurrent ==
    /\ InitChat
    /\ InitIngest
    /\ max_k = max_k_default
    /\ parked = IdleLocals
    /\ processes \in {1, 2}

NextConcurrent ==
    \/ IngestReceive(ConcurrentUploads)
    \/ ReadUpload
    \/ SaveUpload
    \/ Load(ConcurrentDocs)
    \/ Split
    \/ AddDocuments
    \/ Finally
    \/ Switch

SpecConcurrent == InitConcurrent /\ [][NextConcurrent]_vars

-----------------------------------------------------------------------------
(* Properties: concurrent ingestions *)

\* An invocation that has saved and not yet loaded finds its own bytes at its
\* path, and an invocation that has loaded has loaded its own bytes.
OwnBytes(frame) ==
    /\ (frame.saveOutcome = "ok" /\ frame.ipc = "load") =>
          /\ Exists(fs, Val(frame.tmp_path))
          /\ ReadFile(fs, Val(frame.tmp_path)) = Val(frame.upload).content
    /\ ~IsNone(frame.loaded) => Val(frame.loaded) = Val(frame.upload).content

\* C14 (as stated): in any interleaving of two ingestion invocations, the
\* same filename included, each invocation loads exactly the bytes it
\* uploaded, and no invocation's temp file is overwritten or deleted by the
\* other before its own loading has finished.
C14_OwnBytesLoaded == OwnBytes(Locals) /\ OwnBytes(parked)

=============================================================================
